---- MODULE Spec2Model ----
(***************************************************************************)
(* Model of the ranking engine of the Alfred workflow toolkit:             *)
(*   - chrome_bookmarks.search_bookmarks / output_alfred_format / main     *)
(*   - code_with_zoxide.calculate_matching_scores / main                   *)
(*   - ssh_launcher.generate_feedback / main                               *)
(*   - main.py WorkflowCLI.run_tool, and the ways an invocation fails       *)
(*     (no Chrome data, zoxide missing or exiting non-zero, unknown tool)   *)
(* Strings are sequences of one-character strings, so that lower(),        *)
(* substring tests, split() and difflib.SequenceMatcher are computed,      *)
(* not assumed.                                                            *)
(***************************************************************************)
EXTENDS Integers, Sequences, FiniteSets, TLC

VARIABLES
    tool,           \* the tool this invocation runs (main.py's tool name)
    query,          \* sys.argv[1]
    HAS_PYPINYIN,   \* whether the pypinyin import succeeded
    CHROME_BOOKMARKS_DEBUG, \* whether that environment variable is set
    chrome_env,     \* the Chrome data on disk: an installation or none, and
                    \* the Bookmarks file as the profile check and as the
                    \* later read find it
    zoxide_status,  \* how the zoxide commands end on this machine
    bookmarks,      \* the list get_chrome_bookmarks returned
    paths,          \* the list get_zoxide_paths returned
    zoxide_result,  \* the string get_zoxide_result returned
    hosts,          \* the list parse_ssh_config returned (the dict objects)
    runs,           \* how many times the ranker has run on these objects
    outcome,        \* "none", "ok" or "error": how the last run ended
    ranked,         \* what the ranking function returned in the last run
    items,          \* the items of the JSON printed by the last run
    prev            \* outcome, ranked and items of the run before the last

vars == <<tool, query, HAS_PYPINYIN, CHROME_BOOKMARKS_DEBUG, chrome_env,
          zoxide_status, bookmarks, paths, zoxide_result, hosts, runs, outcome,
          ranked, items, prev>>

---------------------------------------------------------------------------
(* Bounds of the model.                                                    *)

\* longest bookmark list drawn (above the top-10 cut of search_bookmarks)
MaxBookmarks == 12
\* a non-string name is planted at a position in 1..MaxCorruptPos, or nowhere
MaxCorruptPos == 1
\* longest candidate path list
MaxPaths == 3
\* longest candidate path list with trailing, doubled or only slashes
MaxSpecialPaths == 2
\* longest SSH host list
MaxHosts == 3
\* how many times the ranker is run on the same objects
MaxRuns == 2

---------------------------------------------------------------------------
(* Python string primitives.                                               *)

\* str.lower() on one character
LowerChar(c) ==
    CASE c = "A" -> "a"
      [] c = "B" -> "b"
      [] c = "C" -> "c"
      [] OTHER -> c

\* str.lower()
Lower(s) == [i \in 1..Len(s) |-> LowerChar(s[i])]

\* s[lo:hi] with 1-based lo and exclusive hi
Slice(s, lo, hi) == [i \in 1..(hi - lo) |-> s[lo + i - 1]]

\* s.startswith(p)
StartsWith(s, p) == Len(p) <= Len(s) /\ Slice(s, 1, Len(p) + 1) = p

\* s.endswith(p)
EndsWith(s, p) ==
    Len(p) <= Len(s) /\ Slice(s, Len(s) - Len(p) + 1, Len(s) + 1) = p

\* q in s (substring test; the empty string is in every string)
Contains(s, q) ==
    \E i \in 1..(Len(s) - Len(q) + 1) : Slice(s, i, i + Len(q)) = q

\* s.split(sep) for a one-character separator: "" splits to [""]
RECURSIVE SplitFrom(_, _, _, _)
SplitFrom(s, sep, i, cur) ==
    IF i > Len(s) THEN <<cur>>
    ELSE IF s[i] = sep THEN <<cur>> \o SplitFrom(s, sep, i + 1, <<>>)
    ELSE SplitFrom(s, sep, i + 1, Append(cur, s[i]))

Split(s, sep) == SplitFrom(s, sep, 1, <<>>)

\* "".join(parts)
RECURSIVE Join(_)
Join(parts) == IF parts = <<>> THEN <<>> ELSE Head(parts) \o Join(Tail(parts))

\* reversed(list)
Reversed(s) == [i \in 1..Len(s) |-> s[Len(s) + 1 - i]]

\* str.strip() for the space character
RECURSIVE Strip(_)
Strip(s) ==
    IF s = <<>> THEN s
    ELSE IF Head(s) = " " THEN Strip(Tail(s))
    ELSE IF s[Len(s)] = " " THEN Strip(Slice(s, 1, Len(s)))
    ELSE s

SetMax(S) == CHOOSE x \in S : \A y \in S : y <= x
SetMin(S) == CHOOSE x \in S : \A y \in S : x <= y

---------------------------------------------------------------------------
(* difflib.SequenceMatcher(None, a, b).ratio(), without junk (autojunk     *)
(* only acts on strings of 200 characters or more).                        *)

\* length of the common run starting at a[i], b[j] inside the windows
RECURSIVE MatchLen(_, _, _, _, _, _)
MatchLen(a, b, i, j, ahi, bhi) ==
    IF i < ahi /\ j < bhi /\ a[i] = b[j]
    THEN 1 + MatchLen(a, b, i + 1, j + 1, ahi, bhi)
    ELSE 0

\* find_longest_match: the longest block, earliest in a, then earliest in b
find_longest_match(a, b, alo, ahi, blo, bhi) ==
    LET lens == {MatchLen(a, b, i, j, ahi, bhi) :
                     i \in alo..(ahi - 1), j \in blo..(bhi - 1)}
        best == IF lens = {} THEN 0 ELSE SetMax(lens)
    IN IF best = 0 THEN [i |-> alo, j |-> blo, size |-> 0]
       ELSE LET bi == SetMin({i \in alo..(ahi - 1) :
                        \E j \in blo..(bhi - 1) :
                            MatchLen(a, b, i, j, ahi, bhi) = best})
                bj == SetMin({j \in blo..(bhi - 1) :
                            MatchLen(a, b, bi, j, ahi, bhi) = best})
            IN [i |-> bi, j |-> bj, size |-> best]

\* get_matching_blocks: total size of the blocks, found by recursing on the
\* pieces left and right of the longest match
RECURSIVE MatchTotal(_, _, _, _, _, _)
MatchTotal(a, b, alo, ahi, blo, bhi) ==
    LET m == find_longest_match(a, b, alo, ahi, blo, bhi)
    IN IF m.size = 0 THEN 0
       ELSE m.size
            + (IF alo < m.i /\ blo < m.j
               THEN MatchTotal(a, b, alo, m.i, blo, m.j) ELSE 0)
            + (IF m.i + m.size < ahi /\ m.j + m.size < bhi
               THEN MatchTotal(a, b, m.i + m.size, ahi, m.j + m.size, bhi)
               ELSE 0)

\* ratio() = 2.0 * matches / (len(a) + len(b)), 1.0 when both are empty;
\* kept as the exact fraction num/den
Ratio(a, b) ==
    IF Len(a) + Len(b) = 0 THEN [num |-> 1, den |-> 1]
    ELSE [num |-> 2 * MatchTotal(a, b, 1, Len(a) + 1, 1, Len(b) + 1),
          den |-> Len(a) + Len(b)]

\* r > 0.3, r >= 0.8, r1 > r2 on fractions (the double nearest to num/den
\* compares with the literals as the fraction does for these lengths)
RatioGtThreshold(r) == 10 * r.num > 3 * r.den
RatioGeFull(r) == 5 * r.num >= 4 * r.den
RatioGt(r1, r2) == r1.num * r2.den > r2.num * r1.den

\* ssh_launcher.similarity(a, b)
similarity(a, b) == Ratio(Lower(a), Lower(b))

---------------------------------------------------------------------------
(* list.sort / sorted: a stable sort. Before(x, y) holds when x's key is   *)
(* strictly ahead of y's; elements that are not ordered keep their order.  *)

\* position of s[i] after a stable sort: the elements ahead of it, and the
\* equal-keyed ones that were earlier in the input
SortRank(s, i, Before(_, _)) ==
    1 + Cardinality({j \in 1..Len(s) :
            \/ Before(s[j], s[i])
            \/ (~Before(s[i], s[j]) /\ j < i)})

StableSort(s, Before(_, _)) ==
    [p \in 1..Len(s) |-> s[CHOOSE i \in 1..Len(s) : SortRank(s, i, Before) = p]]

---------------------------------------------------------------------------
(* Output items (helpers/alfred.py). Text that is not user data is kept as  *)
(* a one-element sequence, so that every title is a sequence.              *)

NoArg == <<>>

\* AlfredItem(title, subtitle, arg, mods): valid defaults to True
AlfredItem(title, subtitle, arg) ==
    [title |-> title, subtitle |-> subtitle, arg |-> arg, valid |-> TRUE]

\* script_filter.add_simple_item(title, subtitle).valid = False
PlaceholderItem(title, subtitle) ==
    [title |-> <<title>>, subtitle |-> <<subtitle>>, arg |-> NoArg,
     valid |-> FALSE]

---------------------------------------------------------------------------
(* chrome_bookmarks                                                        *)

\* the character U+4E2D, read "zhong"
HanZhong == "U+4E2D"

\* a JSON value that is not a string (null, a number) in a bookmark field
NonString == <<"<not a str>">>

IsStr(v) == v # NonString

\* pypinyin.lazy_pinyin when the import succeeded (Han characters become
\* their reading, other characters are kept), the stub returning [] otherwise
lazy_pinyin(hans, has_pypinyin) ==
    IF ~has_pypinyin THEN <<>>
    ELSE [i \in 1..Len(hans) |->
            IF hans[i] = HanZhong THEN <<"z", "h", "o", "n", "g">>
            ELSE <<hans[i]>>]

\* the name the scorer matches against
MatchName(bookmark, has_pypinyin) ==
    LET name == Lower(bookmark.name)
    IN IF has_pypinyin THEN name \o Join(lazy_pinyin(name, has_pypinyin))
       ELSE name

\* int(name_ratio * 100)
FuzzyScore(r) == (100 * r.num) \div r.den

\* the rules as independent ifs, every one that applies adding its score
BookmarkScoreSummed(bookmark, query_lower, has_pypinyin) ==
    LET name == MatchName(bookmark, has_pypinyin)
        url == Lower(bookmark.url)
        name_ratio == Ratio(query_lower, name)
    IN (IF query_lower = name THEN 1000 ELSE 0)
       + (IF Contains(name, query_lower) THEN 500 ELSE 0)
       + (IF Contains(url, query_lower) THEN 200 ELSE 0)
       + (IF RatioGtThreshold(name_ratio) THEN FuzzyScore(name_ratio) ELSE 0)

\* the score of one bookmark: the if / elif chain of search_bookmarks
BookmarkScore(bookmark, query_lower, has_pypinyin) ==
    LET name == MatchName(bookmark, has_pypinyin)
        url == Lower(bookmark.url)
        name_ratio == Ratio(query_lower, name)
    IN IF query_lower = name THEN 1000
       ELSE IF Contains(name, query_lower) THEN 500
       ELSE IF Contains(url, query_lower) THEN 200
       ELSE IF RatioGtThreshold(name_ratio) THEN FuzzyScore(name_ratio)
       ELSE 0

\* bookmark["name"].lower() or bookmark["url"].lower() raises
ScoringRaises(bookmark) == ~IsStr(bookmark.name) \/ ~IsStr(bookmark.url)

\* bookmark.copy() with the score written into the copy
ScoredCopy(bookmark, score) == [score |-> score] @@ bookmark

\* how many results search_bookmarks keeps
TopBookmarks == 10

\* a list returned whole, the [:10] forgotten
WholeList(s) == s

\* s[:10]
FirstTen(s) ==
    Slice(s, 1, 1 + (IF Len(s) < TopBookmarks THEN Len(s) ELSE TopBookmarks))

\* a sort that forgot reverse=True
ScoreBeforeAscending(x, y) == x.score < y.score

\* key=lambda x: x["score"], reverse=True
ScoreBefore(x, y) == x.score > y.score

\* search_bookmarks(bookmarks, query): what it returns, or that it raised
search_bookmarks(bms, q, has_pypinyin) ==
    IF q = <<>>
    THEN [raised |-> FALSE, value |-> FirstTen(bms)]
    ELSE IF \E i \in 1..Len(bms) : ScoringRaises(bms[i])
    THEN [raised |-> TRUE, value |-> <<>>]
    ELSE LET query_lower == Lower(q)
             all == [i \in 1..Len(bms) |->
                        ScoredCopy(bms[i],
                            BookmarkScore(bms[i], query_lower, has_pypinyin))]
             scored_bookmarks == SelectSeq(all, LAMBDA b : b.score > 0)
             sorted == StableSort(scored_bookmarks, ScoreBefore)
         IN [raised |-> FALSE, value |-> FirstTen(sorted)]

\* output_alfred_format: one item per result, a placeholder when there is none
BookmarkItems(filtered_bookmarks) ==
    IF filtered_bookmarks = <<>>
    THEN <<PlaceholderItem("No bookmarks found", "Try a different search term")>>
    ELSE [i \in 1..Len(filtered_bookmarks) |->
            AlfredItem(filtered_bookmarks[i].name, filtered_bookmarks[i].url,
                       filtered_bookmarks[i].url)]

\* create_error_output: the error item, and a second item with the debug
\* text when CHROME_BOOKMARKS_DEBUG is set
create_error_output(title, subtitle, debug_info, debug_set) ==
    <<PlaceholderItem(title, subtitle)>>
    \o (IF debug_info # "" /\ debug_set
        THEN <<PlaceholderItem("Debug Info", debug_info)>> ELSE <<>>)

\* validate_profile_bookmarks: the Bookmarks file exists and parses as JSON
\* with "roots"
validate_profile_bookmarks(file) == file = "valid"

\* find_best_chrome_profile: the exception it raises, "" when it returns
find_best_chrome_profile(env) ==
    IF ~env.installed THEN "ChromeNotInstalledError"
    ELSE IF ~validate_profile_bookmarks(env.validated)
    THEN "ProfileNotFoundError"
    ELSE ""

\* get_chrome_bookmarks_from_path: the exception it raises, "" when it
\* returns the bookmarks
get_chrome_bookmarks_from_path(file) ==
    IF file = "absent" THEN "BookmarksNotFoundError"
    ELSE IF file = "invalid_json" THEN "BookmarksCorruptedError"
    ELSE ""

\* the exception that leaves the try block of main before the search, if any
LoadRaises(env) ==
    IF find_best_chrome_profile(env) # "" THEN find_best_chrome_profile(env)
    ELSE get_chrome_bookmarks_from_path(env.read)

\* the except clauses of main
ErrorOutput(exception, debug_set) ==
    IF exception = "ChromeNotInstalledError"
    THEN create_error_output("Chrome Not Found",
             "No Chrome installation detected. Install Chrome or Chromium.",
             "Searched for: Google Chrome, Chromium, Chrome Beta, Chrome Dev",
             debug_set)
    ELSE IF exception = "ProfileNotFoundError"
    THEN create_error_output("No Chrome Profiles Found",
             "No valid profiles in Google Chrome",
             "Searched installations: ['Google Chrome']", debug_set)
    ELSE IF exception \in {"BookmarksNotFoundError", "BookmarksCorruptedError"}
    THEN create_error_output("Bookmarks Error",
             "Bookmarks file not found or corrupted", exception, debug_set)
    ELSE create_error_output("Unexpected Error",
             "An unexpected error occurred", exception, debug_set)

---------------------------------------------------------------------------
(* code_with_zoxide                                                        *)

PART_MATCH_SCORE == 100
FULL_MATCH_SCORE == 1000
ZOXIDE_RESULT_SCORE == 10000
MATCH_PATH_DEPTH == 5

\* os.path.expanduser("~") + "/", and the roots joined onto it
HOME == <<"/", "a", "/">>
WORKSPACE == HOME \o <<"Workspace", "/">>
COMPANY == WORKSPACE \o <<"company", "/">>

\* int(PART_MATCH_SCORE * ratio * (MATCH_PATH_DEPTH - i) / MATCH_PATH_DEPTH)
\* in IEEE doubles: the floor of the exact value, except that for i = 2 and a
\* ratio of 2/3, 1/3, 1/6 or 1/12 the product falls just below the integer
PartScore(r, i) ==
    LET exact == (PART_MATCH_SCORE * r.num * (MATCH_PATH_DEPTH - i))
                     \div (r.den * MATCH_PATH_DEPTH)
        below == /\ i = 2
                 /\ r.num > 0
                 /\ \/ 3 * r.num = 2 * r.den
                    \/ 3 * r.num = r.den
                    \/ 6 * r.num = r.den
                    \/ 12 * r.num = r.den
    IN IF below THEN exact - 1 ELSE exact

\* what one (token, folder) pair at reversed index i adds to a path's total
SegmentScore(q, folder_name, i) ==
    LET ratio == Ratio(Lower(q), Lower(folder_name))
    IN IF RatioGeFull(ratio)
       THEN (FULL_MATCH_SCORE * (MATCH_PATH_DEPTH - i)) \div MATCH_PATH_DEPTH
       ELSE PartScore(ratio, i)

\* the reversed indices i the inner loop scores: i < MATCH_PATH_DEPTH and a
\* non-empty folder name (an empty one is skipped but keeps its index)
ScoredIndices(folders) ==
    {i \in 0..(Len(folders) - 1) :
        i < MATCH_PATH_DEPTH /\ Reversed(folders)[i + 1] # <<>>}

RECURSIVE SumOver(_, _)
SumOver(S, f) ==
    IF S = {} THEN 0
    ELSE LET x == CHOOSE y \in S : TRUE IN f[x] + SumOver(S \ {x}, f)

\* what one occurrence of path adds to result[path] over all tokens
PathTextScore(path, split_query) ==
    LET folders == Split(path, "/")
        idx == ScoredIndices(folders)
        perToken == [t \in 1..Len(split_query) |->
                        SumOver(idx, [i \in idx |->
                            SegmentScore(split_query[t],
                                         Reversed(folders)[i + 1], i)])]
    IN SumOver(1..Len(split_query), perToken)

\* whether the loops touch result[path] at all (the defaultdict creates the
\* key on the first +=)
CreatesKey(path) == ScoredIndices(Split(path, "/")) # {}

\* the keys of a dict filled from a list: first occurrences, in order
RECURSIVE Dedupe(_)
Dedupe(s) ==
    IF s = <<>> THEN <<>>
    ELSE LET init == Dedupe(Slice(s, 1, Len(s)))
             last == s[Len(s)]
         IN IF \E i \in 1..Len(init) : init[i] = last THEN init
            ELSE Append(init, last)

Occurrences(s, x) == Cardinality({i \in 1..Len(s) : s[i] = x})

\* result after the scoring loops: the dict's items in insertion order
TextScores(ps, q) ==
    LET split_query == Split(q, " ")
        keys == Dedupe(SelectSeq(ps, CreatesKey))
    IN [k \in 1..Len(keys) |->
          [path |-> keys[k],
           score |-> Occurrences(ps, keys[k])
                         * PathTextScore(keys[k], split_query)]]

\* the boost left out
NoZoxideBoost(result, zr) == result

\* if zoxide_result: result[zoxide_result] += ZOXIDE_RESULT_SCORE
AddZoxideBoost(result, zr) ==
    IF zr = <<>> THEN result
    ELSE IF \E k \in 1..Len(result) : result[k].path = zr
    THEN [k \in 1..Len(result) |->
            IF result[k].path = zr
            THEN [result[k] EXCEPT !.score = @ + ZOXIDE_RESULT_SCORE]
            ELSE result[k]]
    ELSE Append(result, [path |-> zr, score |-> ZOXIDE_RESULT_SCORE])

SrcSuffix == <<"/", "s", "r", "c">>

\* the group sorted by score alone, the /src rule left out
ScoreOnlyBefore(x, y) == x.score > y.score

\* src_priority_sort_key(x) < src_priority_sort_key(y)
SrcKeyBefore(x, y) ==
    LET kx == IF EndsWith(x.path, SrcSuffix) THEN 0 ELSE 1
        ky == IF EndsWith(y.path, SrcSuffix) THEN 0 ELSE 1
    IN kx < ky \/ (kx = ky /\ x.score > y.score)

\* the test on the raw prefix, the "/" left out
HasPrefix(other_path, path) == StartsWith(other_path, path)

\* other_path.startswith(path + "/")
IsDescendant(other_path, path) == StartsWith(other_path, path \o <<"/">>)

\* the group the hierarchy pass collects for one path: the path, then the
\* unprocessed paths below it in score order, sorted by src_priority_sort_key
RelatedPaths(sorted_paths, k, processed) ==
    LET path == sorted_paths[k].path
        children == SelectSeq(sorted_paths, LAMBDA o :
                        /\ o.path # path
                        /\ o.path \notin processed
                        /\ IsDescendant(o.path, path))
    IN StableSort(<<sorted_paths[k]>> \o children, SrcKeyBefore)

\* the loop over sorted_paths that builds final_order
RECURSIVE HierarchyPass(_, _, _, _)
HierarchyPass(sorted_paths, k, processed, final_order) ==
    IF k > Len(sorted_paths) THEN final_order
    ELSE IF sorted_paths[k].path \in processed
    THEN HierarchyPass(sorted_paths, k + 1, processed, final_order)
    ELSE LET related_paths ==
                 RelatedPaths(sorted_paths, k, processed \cup {sorted_paths[k].path})
         IN HierarchyPass(sorted_paths, k + 1,
                processed \cup {related_paths[i].path : i \in 1..Len(related_paths)},
                final_order \o related_paths)

\* the dict sorted by score, descending
SortedByScore(result) == StableSort(result, ScoreBefore)

\* calculate_matching_scores(zoxide_result, paths, query): the returned dict
\* as its items in order
calculate_matching_scores(zr, ps, q) ==
    HierarchyPass(SortedByScore(AddZoxideBoost(TextScores(ps, q), zr)),
                  1, {}, <<>>)

EXCLUDE_FOLDERS_PREFIX ==
    {<<"/", "A", "p", "p", "l", "i", "c", "a", "t", "i", "o", "n", "s">>}

\* subprocess.check_output(["zoxide", ...]): the exception it raises, "" when
\* the command ran and exited 0
check_output(status, command) ==
    IF status = "not_installed" THEN "FileNotFoundError"
    ELSE IF status = "exit_nonzero" THEN "CalledProcessError"
    ELSE IF status = "no_match" /\ command = "query"
    THEN "CalledProcessError"
    ELSE ""

\* get_zoxide_result: the stripped output, "" on CalledProcessError; any
\* other exception leaves the function
get_zoxide_result(status, output) ==
    LET e == check_output(status, "query")
    IN [raised |-> e \notin {"", "CalledProcessError"},
        value |-> IF e = "" THEN Strip(output) ELSE <<>>]

\* get_zoxide_paths: the printed lines without those under an excluded
\* prefix, [] on CalledProcessError; any other exception leaves the function
get_zoxide_paths(status, zoxide_query_list) ==
    LET e == check_output(status, "query --list")
    IN [raised |-> e \notin {"", "CalledProcessError"},
        value |-> IF e = ""
                  THEN SelectSeq(zoxide_query_list, LAMBDA item :
                           ~\E prefix \in EXCLUDE_FOLDERS_PREFIX :
                               StartsWith(item, prefix))
                  ELSE <<>>]

\* replace_str_in_match(match)
replace_str_in_match(match) ==
    IF StartsWith(match, COMPANY) /\ match # COMPANY
    THEN <<"[company] ">> \o Slice(match, Len(COMPANY) + 1, Len(match) + 1)
    ELSE IF StartsWith(match, WORKSPACE) /\ match # WORKSPACE
    THEN <<"[workspace] ">> \o Slice(match, Len(WORKSPACE) + 1, Len(match) + 1)
    ELSE IF StartsWith(match, HOME) /\ match # HOME
    THEN <<"[home] ">> \o Slice(match, Len(HOME) + 1, Len(match) + 1)
    ELSE match

\* main without the cut: one item per match
AllPathItems(matches) ==
    IF matches = <<>>
    THEN <<PlaceholderItem("No results found", "Try a different search term")>>
    ELSE [i \in 1..Len(matches) |->
            AlfredItem(matches[i].path, <<"Open with VSCode">>,
                       matches[i].path)]

\* the last index main emits (for i, match in enumerate(matches): if i > 10)
LastPathIndex == 10

\* the items main builds from the matches, a placeholder when there is none
PathItems(matches) ==
    LET n == IF Len(matches) < LastPathIndex + 1 THEN Len(matches)
             ELSE LastPathIndex + 1
    IN IF n = 0
       THEN <<PlaceholderItem("No results found", "Try a different search term")>>
       ELSE [i \in 1..n |->
               AlfredItem(replace_str_in_match(matches[i].path),
                          <<"Open with VSCode">>, matches[i].path)]

---------------------------------------------------------------------------
(* ssh_launcher                                                            *)

Unknown == <<"U", "n", "k", "n", "o", "w", "n">>

\* host.get("Host", "Unknown")
HostAlias(host) == IF "Host" \in DOMAIN host THEN host.Host ELSE Unknown

\* x.get("similarity", 0)
GetSimilarity(host) ==
    IF "similarity" \in DOMAIN host THEN host.similarity
    ELSE [num |-> 0, den |-> 1]

\* host["similarity"] = sim, written into the host object itself
WithSimilarity(host, q) ==
    [similarity |-> similarity(q, HostAlias(host))] @@
    [k \in DOMAIN host \ {"similarity"} |-> host[k]]

\* the host objects after the scoring loop of generate_feedback
ScoredHosts(hs, q) ==
    IF q = <<>> THEN hs ELSE [i \in 1..Len(hs) |-> WithSimilarity(hs[i], q)]

\* a sort that forgot reverse=True
SimilarityBeforeAscending(x, y) == RatioGt(GetSimilarity(y), GetSimilarity(x))

\* key=lambda x: x.get("similarity", 0), reverse=True
SimilarityBefore(x, y) == RatioGt(GetSimilarity(x), GetSimilarity(y))

\* the list ordered by the similarity the objects held before this run
\* scored them (the sort placed ahead of the scoring loop)
RankedHostsStale(hs, q) ==
    IF q = <<>> THEN hs
    ELSE LET order == StableSort([i \in 1..Len(hs) |-> i], LAMBDA x, y :
                          RatioGt(GetSimilarity(hs[x]), GetSimilarity(hs[y])))
             scored == ScoredHosts(hs, q)
         IN SelectSeq([k \in 1..Len(hs) |-> scored[order[k]]],
                      LAMBDA h : RatioGtThreshold(GetSimilarity(h)))

\* the local list generate_feedback iterates to build the items
RankedHosts(hs, q) ==
    IF q = <<>> THEN hs
    ELSE SelectSeq(StableSort(ScoredHosts(hs, q), SimilarityBefore),
                   LAMBDA h : RatioGtThreshold(GetSimilarity(h)))

\* the items generate_feedback prints: no placeholder, no valid key
HostItems(ranked_hosts) ==
    [i \in 1..Len(ranked_hosts) |->
        AlfredItem(HostAlias(ranked_hosts[i]),
                   (IF "HostName" \in DOMAIN ranked_hosts[i]
                    THEN ranked_hosts[i].HostName ELSE <<"N/A">>)
                       \o <<":", "2", "2">>,
                   <<"s", "s", "h", " ">> \o HostAlias(ranked_hosts[i]))]

---------------------------------------------------------------------------
(* main.py                                                                 *)

\* the names WorkflowCLI._register_tools registers
Tools == {"chrome_bookmarks", "code_with_zoxide", "ssh_launcher"}

\* run_tool's output for a name that is not registered (the title is the
\* message around the name, the subtitle lists the registered names)
UnknownToolItems(tool_name) ==
    <<[title |-> <<"tool does not exist: ", tool_name>>,
       subtitle |-> <<"available tools: ", Tools>>,
       arg |-> NoArg, valid |-> FALSE]>>

\* run_tool's output for an exception e that leaves tool.run
ToolErrorItems(tool_name, e) ==
    <<[title |-> <<"error while running tool: ", tool_name>>,
       subtitle |-> <<e>>,
       arg |-> NoArg, valid |-> FALSE]>>

---------------------------------------------------------------------------
(* The inputs an invocation can find.                                      *)

\* bookmarks as extract_bookmarks builds them (name, url, date_added)
BookmarkPool ==
    <<[name |-> <<"A", "b">>, url |-> <<"c">>],
      [name |-> <<"a", "b", "c">>, url |-> <<"x">>],
      [name |-> <<"c">>, url |-> <<"a", "b">>],
      [name |-> <<"b", "a">>, url |-> <<"c">>],
      [name |-> <<HanZhong>>, url |-> <<"c">>],
      [name |-> <<"a">>, url |-> <<"c", "c">>]>>

BookmarkQueries ==
    {<<>>, <<"A", "b">>, <<"c">>, <<"z", "h">>}

\* a list of len bookmarks walking the pool from offset by stride; date_added
\* is the position, which tells equal bookmarks apart; the name at position
\* corrupt (if any) is not a string
BookmarkList(len, offset, stride, corrupt) ==
    [i \in 1..len |->
        LET b == BookmarkPool[((offset + stride * i) % Len(BookmarkPool)) + 1]
        IN [name |-> IF i = corrupt THEN NonString ELSE b.name,
            url |-> b.url,
            date_added |-> i]]

BookmarkLists ==
    {BookmarkList(len, offset, stride, corrupt) :
        len \in 0..MaxBookmarks,
        offset \in 0..(Len(BookmarkPool) - 1),
        stride \in {1, Len(BookmarkPool) - 1},
        corrupt \in 0..MaxCorruptPos}

PathPool ==
    {<<"/", "a">>,
     <<"/", "a", "/", "s", "r", "c">>,
     <<"/", "a", "/", "a">>,
     <<"/", "a", "/", "a", "/", "s", "r", "c">>,
     <<"/", "a", "b">>,
     <<"/", "b">>,
     <<"/", "A", "p", "p", "l", "i", "c", "a", "t", "i", "o", "n", "s">>}

\* paths with a trailing or a doubled "/", the root, and a path deeper than
\* MATCH_PATH_DEPTH, next to a plain one
SpecialPathPool ==
    {<<"/">>,
     <<"/", "a", "/">>,
     <<"/", "a", "/", "/", "a">>,
     <<"/", "a", "/", "a", "/", "a", "/", "a", "/", "a", "/", "a">>,
     <<"/", "a">>}

\* a database of thirteen paths, more than main prints
LongPathList ==
    <<<<"/", "a">>, <<"/", "b">>, <<"/", "c">>,
      <<"/", "a", "/", "b">>, <<"/", "a", "/", "c">>, <<"/", "b", "/", "a">>,
      <<"/", "b", "/", "c">>, <<"/", "c", "/", "a">>, <<"/", "c", "/", "b">>,
      <<"/", "a", "/", "s", "r", "c">>, <<"/", "b", "/", "s", "r", "c">>,
      <<"/", "a", "b">>, <<"/", "a", "c">>>>

PathQueries ==
    {<<>>, <<"a">>, <<"s", "r", "c">>,
     <<"a", " ", "a", " ", "a", " ", "a", " ", "a", " ", "a">>,
     <<"a", " ", " ", "a", " ", "a">>}

\* what "zoxide query <input>" prints when it exits 0
ZoxideResults ==
    {<<>>, <<"/", "a">>, <<"/", "a", "/", "a">>, <<"/", "b">>,
     <<"/", "A", "p", "p", "l", "i", "c", "a", "t", "i", "o", "n", "s">>}

\* the zoxide commands both exit 0; the query finds no match and exits
\* non-zero; both exit non-zero; zoxide is not on the PATH
ZoxideStatuses == {"ok", "no_match", "exit_nonzero", "not_installed"}

\* the Bookmarks file of the profile, at one access
BookmarksFiles == {"valid", "absent", "invalid_json"}

\* without an installation there is no Bookmarks file
ChromeEnvs ==
    {env \in [installed : BOOLEAN, validated : BookmarksFiles,
              read : BookmarksFiles] :
        ~env.installed => (env.validated = "absent" /\ env.read = "absent")}

\* Chrome installed, the Bookmarks file valid throughout
ChromeReady == [installed |-> TRUE, validated |-> "valid", read |-> "valid"]

\* the lists without repetition of at most n elements of S
RECURSIVE DistinctSeqs(_, _)
DistinctSeqs(S, n) ==
    IF n = 0 THEN {<<>>}
    ELSE LET shorter == DistinctSeqs(S, n - 1)
         IN shorter \cup
            {Append(q, x) : q \in {r \in shorter : Len(r) = n - 1}, x \in S}

NoRepeat(s) == \A i, j \in 1..Len(s) : i # j => s[i] # s[j]

\* the lines "zoxide query --list" prints
PathLists ==
    {s \in DistinctSeqs(PathPool, MaxPaths) : NoRepeat(s)}
        \cup {s \in DistinctSeqs(SpecialPathPool, MaxSpecialPaths) : NoRepeat(s)}
        \cup {LongPathList, Reversed(LongPathList)}

\* hosts as parse_ssh_config builds them
HostPool ==
    {[Host |-> <<"a", "b">>, HostName |-> <<"h", "1">>],
     [Host |-> <<"a", "c">>, HostName |-> <<"h", "2">>],
     [Host |-> <<"b", "a">>, HostName |-> <<"h", "3">>],
     [Host |-> <<"a", "b", "c">>, HostName |-> <<"h", "4">>],
     [Host |-> <<"c", "c">>, HostName |-> <<"h", "5">>],
     [Host |-> <<"b", "b", "b", "b", "b", "a">>, HostName |-> <<"h", "6">>]}

HostQueries == {<<>>, <<"a">>, <<"A", "B">>, <<" ", "c">>}

\* a config of fourteen hosts, more than any launcher list cut would keep
LongHostAliases ==
    <<<<"a", "b", "c">>, <<"a", "b">>, <<"a", "c", "b">>, <<"a", "c">>,
      <<"b", "b", "b", "b", "b", "a">>, <<"b", "a", "c">>, <<"b", "a">>,
      <<"b", "c", "a">>, <<"c", "a">>, <<"c", "c">>, <<"c", "a", "b">>,
      <<"a", "a">>, <<"c", "b", "a">>, <<"a", "a", "b">>>>

LongHostList ==
    [i \in 1..Len(LongHostAliases) |->
        [Host |-> LongHostAliases[i], HostName |-> <<"h", "0">>]]

HostLists ==
    {s \in DistinctSeqs(HostPool, MaxHosts) : NoRepeat(s)}
        \cup {LongHostList, Reversed(LongHostList)}

NoRun == [outcome |-> "none", ranked |-> <<>>, items |-> <<>>]

---------------------------------------------------------------------------
(* The state machine: one invocation's inputs, and the runs of its ranker. *)

InitChrome ==
    /\ tool = "chrome_bookmarks"
    /\ query \in BookmarkQueries
    /\ HAS_PYPINYIN \in BOOLEAN
    /\ CHROME_BOOKMARKS_DEBUG \in BOOLEAN
    /\ chrome_env \in ChromeEnvs
    /\ zoxide_status = "ok"
    /\ IF LoadRaises(chrome_env) = "" THEN bookmarks \in BookmarkLists
                                      ELSE bookmarks = <<>>
    /\ paths = <<>>
    /\ zoxide_result = <<>>
    /\ hosts = <<>>

InitZoxide ==
    /\ tool = "code_with_zoxide"
    /\ query \in PathQueries
    /\ HAS_PYPINYIN = FALSE
    /\ CHROME_BOOKMARKS_DEBUG = FALSE
    /\ chrome_env = ChromeReady
    /\ zoxide_status \in ZoxideStatuses
    /\ bookmarks = <<>>
    /\ \E zoxide_query_list \in PathLists :
           paths = get_zoxide_paths(zoxide_status, zoxide_query_list).value
    /\ \E output \in ZoxideResults :
           zoxide_result = get_zoxide_result(zoxide_status, output).value
    /\ hosts = <<>>

InitSsh ==
    /\ tool = "ssh_launcher"
    /\ query \in HostQueries
    /\ HAS_PYPINYIN = FALSE
    /\ CHROME_BOOKMARKS_DEBUG = FALSE
    /\ chrome_env = ChromeReady
    /\ zoxide_status = "ok"
    /\ bookmarks = <<>>
    /\ paths = <<>>
    /\ zoxide_result = <<>>
    /\ hosts \in HostLists

\* main.py handed a name that no tool registers
InitUnknown ==
    /\ tool = "no_such_tool"
    /\ query \in PathQueries
    /\ HAS_PYPINYIN = FALSE
    /\ CHROME_BOOKMARKS_DEBUG \in BOOLEAN
    /\ chrome_env = ChromeReady
    /\ zoxide_status = "ok"
    /\ bookmarks = <<>>
    /\ paths = <<>>
    /\ zoxide_result = <<>>
    /\ hosts = <<>>

Init ==
    /\ InitChrome \/ InitZoxide \/ InitSsh \/ InitUnknown
    /\ runs = 0
    /\ outcome = "none"
    /\ ranked = <<>>
    /\ items = <<>>
    /\ prev = NoRun

LastRun == [outcome |-> outcome, ranked |-> ranked, items |-> items]

\* chrome_bookmarks.main: find the profile, load the bookmarks, search,
\* print the items; every exception is caught by one of the except clauses
chrome_bookmarks_main ==
    /\ tool = "chrome_bookmarks"
    /\ runs < MaxRuns
    /\ LET r == search_bookmarks(bookmarks, query, HAS_PYPINYIN)
       IN IF LoadRaises(chrome_env) # ""
          THEN /\ outcome' = "error"
               /\ ranked' = <<>>
               /\ items' = ErrorOutput(LoadRaises(chrome_env),
                                       CHROME_BOOKMARKS_DEBUG)
          ELSE IF r.raised
          THEN /\ outcome' = "error"
               /\ ranked' = <<>>
               /\ items' = create_error_output("Unexpected Error",
                               "An unexpected error occurred",
                               "AttributeError", CHROME_BOOKMARKS_DEBUG)
          ELSE /\ outcome' = "ok"
               /\ ranked' = r.value
               /\ items' = BookmarkItems(r.value)
    /\ prev' = LastRun
    /\ runs' = runs + 1
    /\ UNCHANGED <<tool, query, HAS_PYPINYIN, CHROME_BOOKMARKS_DEBUG,
                   chrome_env, zoxide_status, bookmarks, paths, zoxide_result, hosts>>

\* code_with_zoxide.main under main.py's run_tool, with paths and
\* zoxide_result what the two zoxide calls returned; an exception that
\* leaves a call leaves main and is caught by run_tool
code_with_zoxide_main ==
    /\ tool = "code_with_zoxide"
    /\ runs < MaxRuns
    /\ IF get_zoxide_paths(zoxide_status, <<>>).raised
       THEN /\ outcome' = "error"
            /\ ranked' = <<>>
            /\ items' = ToolErrorItems(tool,
                            check_output(zoxide_status, "query --list"))
       ELSE IF paths = <<>>
       THEN /\ outcome' = "ok"
            /\ ranked' = <<>>
            /\ items' = <<PlaceholderItem("No results found",
                                          "Try a different search term")>>
       ELSE LET matches == calculate_matching_scores(zoxide_result, paths, query)
            IN /\ outcome' = "ok"
               /\ ranked' = matches
               /\ items' = PathItems(matches)
    /\ prev' = LastRun
    /\ runs' = runs + 1
    /\ UNCHANGED <<tool, query, HAS_PYPINYIN, CHROME_BOOKMARKS_DEBUG,
                   chrome_env, zoxide_status, bookmarks, paths, zoxide_result, hosts>>

\* ssh_launcher.main once the config is parsed: generate_feedback(hosts,
\* query.strip()), which writes the similarity into the host objects
ssh_launcher_main ==
    /\ tool = "ssh_launcher"
    /\ runs < MaxRuns
    /\ LET q == Strip(query)
       IN /\ hosts' = ScoredHosts(hosts, q)
          /\ ranked' = RankedHosts(hosts, q)
          /\ items' = HostItems(RankedHosts(hosts, q))
    /\ outcome' = "ok"
    /\ prev' = LastRun
    /\ runs' = runs + 1
    /\ UNCHANGED <<tool, query, HAS_PYPINYIN, CHROME_BOOKMARKS_DEBUG,
                   chrome_env, zoxide_status, bookmarks, paths, zoxide_result>>

\* WorkflowCLI.run_tool with a name that is not registered
run_tool_unknown ==
    /\ tool \notin Tools
    /\ runs < MaxRuns
    /\ outcome' = "error"
    /\ ranked' = <<>>
    /\ items' = UnknownToolItems(tool)
    /\ prev' = LastRun
    /\ runs' = runs + 1
    /\ UNCHANGED <<tool, query, HAS_PYPINYIN, CHROME_BOOKMARKS_DEBUG,
                   chrome_env, zoxide_status, bookmarks, paths, zoxide_result,
                   hosts>>

Next ==
    \/ chrome_bookmarks_main
    \/ code_with_zoxide_main
    \/ ssh_launcher_main
    \/ run_tool_unknown

Spec == Init /\ [][Next]_vars

---------------------------------------------------------------------------
(* Properties of the bookmark ranker.                                      *)

Min(a, b) == IF a < b THEN a ELSE b

\* the bookmarks were found and read, so that search_bookmarks is called
BookmarksLoaded ==
    tool = "chrome_bookmarks" /\ LoadRaises(chrome_env) = ""

\* a bookmark search has run to its end on a non-empty query
BookmarksRanked ==
    tool = "chrome_bookmarks" /\ runs > 0 /\ outcome = "ok" /\ query # <<>>

\* how a bookmark matches the query by its own name and url: 4 the name is
\* the query, 3 the name contains it, 2 only the url contains it, 1 neither
MatchTier(b) ==
    LET q == Lower(query)
    IN IF Lower(b.name) = q THEN 4
       ELSE IF Contains(Lower(b.name), q) THEN 3
       ELSE IF Contains(Lower(b.url), q) THEN 2
       ELSE 1

\* C1: among the results of a search on a non-empty query, with or without
\* pypinyin, a bookmark whose name is the query (case-insensitively) scores
\* strictly above one whose name only contains it, which scores strictly
\* above one matched only by its url, which scores strictly above one
\* matched only by the fuzzy rule.
C1_TierOrdering ==
    BookmarksRanked =>
        \A i, j \in 1..Len(ranked) :
            MatchTier(ranked[i]) > MatchTier(ranked[j])
                => ranked[i].score > ranked[j].score

\* the input positions whose bookmark scores above 0
PositiveCandidates ==
    {i \in 1..Len(bookmarks) :
        BookmarkScore(bookmarks[i], Lower(query), HAS_PYPINYIN) > 0}

\* C2: for a non-empty query search_bookmarks returns the top 10 of the
\* candidates scoring above 0: at most 10 entries, each an input candidate
\* with its positive score, scores non-increasing, equal scores in input
\* order, and no omitted positive candidate scoring above a returned one.
C2_TopTenPositive ==
    BookmarksRanked =>
        /\ Len(ranked) = Min(TopBookmarks, Cardinality(PositiveCandidates))
        /\ \A k \in 1..Len(ranked) :
              /\ ranked[k].date_added \in PositiveCandidates
              /\ ranked[k] = [score |-> ranked[k].score]
                                @@ bookmarks[ranked[k].date_added]
              /\ ranked[k].score =
                    BookmarkScore(bookmarks[ranked[k].date_added],
                                  Lower(query), HAS_PYPINYIN)
              /\ ranked[k].score > 0
        /\ \A i, j \in 1..Len(ranked) :
              i < j =>
                 /\ ranked[i].score >= ranked[j].score
                 /\ ranked[i].score = ranked[j].score
                        => ranked[i].date_added < ranked[j].date_added
        /\ \A p \in PositiveCandidates :
              (\A k \in 1..Len(ranked) : ranked[k].date_added # p)
                 => \A k \in 1..Len(ranked) :
                        BookmarkScore(bookmarks[p], Lower(query), HAS_PYPINYIN)
                            <= ranked[k].score

\* more than ten candidates score above 0, with different scores and a tie
\* among the ten returned
C2_Witness ==
    /\ BookmarksRanked
    /\ Cardinality(PositiveCandidates) > TopBookmarks
    /\ Len(ranked) = TopBookmarks
    /\ ranked[1].score > ranked[TopBookmarks].score
    /\ \E i \in 1..(Len(ranked) - 1) : ranked[i].score = ranked[i + 1].score

\* C3: with an empty query search_bookmarks returns the first min(10, n)
\* input candidates, in input order, as they are (no score field).
C3_EmptyQueryPassThrough ==
    (BookmarksLoaded /\ runs > 0 /\ query = <<>>) =>
        /\ outcome = "ok"
        /\ Len(ranked) = Min(TopBookmarks, Len(bookmarks))
        /\ \A i \in 1..Len(ranked) :
              /\ ranked[i] = bookmarks[i]
              /\ "score" \notin DOMAIN ranked[i]

\* an empty query on a list of more than ten bookmarks
C3_Witness ==
    /\ tool = "chrome_bookmarks"
    /\ runs > 0
    /\ query = <<>>
    /\ Len(bookmarks) > TopBookmarks
    /\ Len(ranked) = TopBookmarks

---------------------------------------------------------------------------
(* Properties of the path ranker.                                          *)

\* calculate_matching_scores has run
PathsRanked == tool = "code_with_zoxide" /\ runs > 0 /\ paths # <<>>

\* where a path stands in the returned ordering (0 when it is not in it)
PositionOf(path) ==
    IF \E k \in 1..Len(ranked) : ranked[k].path = path
    THEN CHOOSE k \in 1..Len(ranked) : ranked[k].path = path
    ELSE 0

\* the total score of a path of the returned ordering
ScoreOf(path) == ranked[PositionOf(path)].score

HintIsCandidate ==
    /\ PathsRanked
    /\ zoxide_result # <<>>
    /\ \E k \in 1..Len(paths) : paths[k] = zoxide_result

---------------------------------------------------------------------------
(* Properties of the host ranker.                                          *)

\* generate_feedback has run on a non-empty query
HostsRanked == tool = "ssh_launcher" /\ runs > 0 /\ Strip(query) # <<>>

\* the similarity of the query and the alias of the host at an input position
SimAt(i) == similarity(Strip(query), hosts[i].Host)

\* the input position of the host an item was emitted for
HostOfItem(k) == CHOOSE i \in 1..Len(hosts) : hosts[i].Host = items[k].title

\* C6: for a non-empty query generate_feedback emits an item for a host if
\* and only if similarity(query, alias) > 0.3, one item per such host and no
\* cut of the list; the items are in non-increasing similarity order, hosts
\* of equal similarity in input order.
C6_HostsAboveThresholdSorted ==
    HostsRanked =>
        /\ \A i \in 1..Len(hosts) :
              (\E k \in 1..Len(items) : items[k].title = hosts[i].Host)
                 <=> 10 * SimAt(i).num > 3 * SimAt(i).den
        /\ Len(items) = Cardinality({i \in 1..Len(hosts) :
                                        10 * SimAt(i).num > 3 * SimAt(i).den})
        /\ \A k, l \in 1..Len(items) :
              k < l =>
                 LET a == SimAt(HostOfItem(k))
                     b == SimAt(HostOfItem(l))
                 IN /\ a.num * b.den >= b.num * a.den
                    /\ a.num * b.den = b.num * a.den
                          => HostOfItem(k) < HostOfItem(l)

\* a host with a similarity in (0, 0.3] is left out, and twelve hosts are
\* emitted, all of them, reordered, with ties among them
C6_Witness ==
    /\ HostsRanked
    /\ \E i \in 1..Len(hosts) :
          SimAt(i).num > 0 /\ 10 * SimAt(i).num <= 3 * SimAt(i).den
    /\ Len(items) = 12
    /\ \E k \in 1..(Len(items) - 1) :
          /\ HostOfItem(k) > HostOfItem(k + 1)
          /\ SimAt(HostOfItem(k)) # SimAt(HostOfItem(k + 1))
    /\ \E k \in 1..(Len(items) - 1) :
          SimAt(HostOfItem(k)) = SimAt(HostOfItem(k + 1))

---------------------------------------------------------------------------
(* Properties of all three rankers.                                        *)

\* C7: in every domain, when the ranker ends with nothing to show (no
\* candidate, or none surviving), the output holds exactly one item, and it
\* is not actionable.
C7_PlaceholderWhenEmpty ==
    (runs > 0 /\ outcome = "ok" /\ ranked = <<>>) =>
        /\ Len(items) = 1
        /\ ~items[1].valid

\* C8: a ranking pass leaves its input candidate records as they were.
C8_InputsUnchanged ==
    [][bookmarks' = bookmarks /\ paths' = paths /\ hosts' = hosts]_vars

\* C9: a second run of the ranker on the same query, zoxide result and
\* candidate objects (as the first run left them) ends as the first did:
\* the same returned ordering and the same printed items.
C9_SecondRunSame ==
    runs >= 2 => LastRun = prev

\* two runs of the host ranker on a query that reorders the hosts: the
\* second run reads objects the first has written the similarity into
C9_Witness ==
    /\ runs >= 2
    /\ tool = "ssh_launcher"
    /\ Strip(query) # <<>>
    /\ Len(ranked) >= 2
    /\ "similarity" \in DOMAIN hosts[1]
    /\ HostOfItem(1) > HostOfItem(2)

\* the bookmarks that can be scored
WellFormed(bms) == SelectSeq(bms, LAMBDA b : ~ScoringRaises(b))

\* C10: a bookmark that cannot be scored is left out and the others are
\* ranked as if it were absent; the invocation does not end as an error.
C10_MalformedIsolated ==
    (BookmarksLoaded /\ runs > 0 /\ query # <<>>) =>
        /\ outcome = "ok"
        /\ ranked = search_bookmarks(WellFormed(bookmarks), query,
                                     HAS_PYPINYIN).value

---------------------------------------------------------------------------
(* Properties of failed invocations.                                       *)

\* C11: every invocation that fails (no Chrome installation, no valid
\* profile, Bookmarks file absent or corrupt, unexpected exception, unknown
\* tool name, exception inside a tool) prints exactly one item, which is not
\* actionable and has a title and a subtitle, whether or not
\* CHROME_BOOKMARKS_DEBUG is set.
C11_FailureOneItem ==
    (runs > 0 /\ outcome = "error") =>
        /\ Len(items) = 1
        /\ ~items[1].valid
        /\ items[1].title # <<>>
        /\ items[1].subtitle # <<>>

\* zoxide exits non-zero on both commands, or is not installed
ZoxideUnavailable ==
    /\ tool = "code_with_zoxide"
    /\ zoxide_status \in {"exit_nonzero", "not_installed"}

\* C12: when zoxide exits non-zero or is not installed, get_zoxide_result
\* yields the empty hint and get_zoxide_paths the empty list without raising,
\* and the invocation prints the single "No results found" placeholder, not
\* an error.
C12_ZoxideUnavailableDegrades ==
    (ZoxideUnavailable /\ runs > 0) =>
        /\ paths = <<>>
        /\ zoxide_result = <<>>
        /\ outcome = "ok"
        /\ items = <<PlaceholderItem("No results found",
                                     "Try a different search term")>>

\* the paths the printed items carry, in order (a placeholder carries none)
OutputPaths ==
    LET shown == SelectSeq(items, LAMBDA it : it.valid)
    IN [i \in 1..Len(shown) |-> shown[i].arg]

\* C13: the path output holds exactly the first min(n, 11) paths of the
\* ordering calculate_matching_scores returned, in that order, and never
\* more than 11 items.
C13_FirstElevenPaths ==
    PathsRanked =>
        /\ Len(items) <= LastPathIndex + 1
        /\ Len(OutputPaths) = Min(Len(ranked), LastPathIndex + 1)
        /\ \A i \in 1..Len(OutputPaths) : OutputPaths[i] = ranked[i].path

\* an ordering of more than 11 paths, of which 11 are printed
C13_Witness ==
    /\ PathsRanked
    /\ Len(ranked) > LastPathIndex + 1
    /\ Len(items) = LastPathIndex + 1
    /\ OutputPaths[LastPathIndex + 1] = ranked[LastPathIndex + 1].path

---------------------------------------------------------------------------
(* Properties of the path scores.                                          *)

IsCandidate(path) == \E j \in 1..Len(paths) : paths[j] = path

\* the total of the k-th path of the ordering without the zoxide boost
TextualScore(k) ==
    ranked[k].score
        - (IF ranked[k].path = zoxide_result THEN ZOXIDE_RESULT_SCORE ELSE 0)

\* the non-empty segments of a path, deepest first
NonEmptySegments(path) ==
    SelectSeq(Reversed(Split(path, "/")), LAMBDA folder_name : folder_name # <<>>)

\* the textual total as C14 states it: the last MATCH_PATH_DEPTH non-empty
\* segments, the deepest at index 0, summed over the tokens
StatedTextScore(path, split_query) ==
    LET segments == NonEmptySegments(path)
        idx == 0..(Min(Len(segments), MATCH_PATH_DEPTH) - 1)
        perToken == [t \in 1..Len(split_query) |->
                        SumOver(idx, [i \in idx |->
                            SegmentScore(split_query[t], segments[i + 1], i)])]
    IN SumOver(1..Len(split_query), perToken)

\* C14: the textual total of each candidate is the sum, over every query
\* token and each of its last 5 non-empty segments (index 0 the deepest
\* non-empty one), of int(c * (5 - i) / 5), c = 1000 for a ratio >= 0.8 and
\* 100 * ratio otherwise; empty segments take no index and add nothing.
C14_TextTotalOverNonEmptySegments ==
    PathsRanked =>
        \A k \in 1..Len(ranked) :
            IsCandidate(ranked[k].path) =>
                TextualScore(k) = StatedTextScore(ranked[k].path,
                                                  Split(query, " "))

\* C15: the ordering calculate_matching_scores returns holds only paths of
\* the candidate list; a zoxide result that is not a candidate is not added.
C15_OnlyCandidatesRanked ==
    PathsRanked =>
        \A k \in 1..Len(ranked) : IsCandidate(ranked[k].path)

\* C16: every candidate path stands exactly once in the returned ordering,
\* those with a total of 0 included.
C16_EveryCandidateOnce ==
    PathsRanked =>
        \A j \in 1..Len(paths) :
            Cardinality({k \in 1..Len(ranked) : ranked[k].path = paths[j]}) = 1

\* C17: whatever the query and however many tokens it has, the textual total
\* of every path is strictly below ZOXIDE_RESULT_SCORE.
C17_TextBelowBoost ==
    PathsRanked =>
        \A k \in 1..Len(ranked) : TextualScore(k) < ZOXIDE_RESULT_SCORE

---------------------------------------------------------------------------
(* Properties of the bookmark scores.                                      *)

\* the first rule that applies to a bookmark, in the order exact name, name
\* substring, url substring, fuzzy; the name is the one the scorer matches
\* (lowercased, with the transliteration appended when there is one)
FirstRule(b) ==
    LET q == Lower(query)
        name == MatchName(b, HAS_PYPINYIN)
    IN IF q = name THEN "exact-name"
       ELSE IF Contains(name, q) THEN "name-substring"
       ELSE IF Contains(Lower(b.url), q) THEN "url-substring"
       ELSE "fuzzy"

\* what that rule alone gives: floor(ratio * 100) above a ratio of 0.3 and
\* 0 otherwise under the fuzzy rule
RuleScore(b) ==
    LET ratio == Ratio(Lower(query), MatchName(b, HAS_PYPINYIN))
    IN CASE FirstRule(b) = "exact-name" -> 1000
         [] FirstRule(b) = "name-substring" -> 500
         [] FirstRule(b) = "url-substring" -> 200
         [] OTHER -> IF 10 * ratio.num > 3 * ratio.den
                     THEN (100 * ratio.num) \div ratio.den ELSE 0

\* the input bookmarks that are not among the results
Unranked ==
    {i \in 1..Len(bookmarks) :
        \A k \in 1..Len(ranked) : ranked[k].date_added # i}

\* C18: for a non-empty query each bookmark's score comes from one rule, the
\* first that applies among exact name, name substring, url substring and
\* fuzzy, with nothing added across rules; a fuzzy score is floor(ratio * 100)
\* for a ratio above 0.3 and lies in 30..100, a ratio of at most 0.3 gives 0
\* and excludes the bookmark; every score is 1000, 500, 200 or a fuzzy value.
C18_OneRuleScores ==
    BookmarksRanked =>
        /\ \A k \in 1..Len(ranked) :
              LET b == bookmarks[ranked[k].date_added]
              IN /\ ranked[k].score = RuleScore(b)
                 /\ ranked[k].score \in {1000, 500, 200} \cup 30..100
                 /\ FirstRule(b) = "fuzzy" => ranked[k].score \in 30..100
        /\ Len(ranked) < TopBookmarks =>
              \A i \in Unranked :
                  /\ FirstRule(bookmarks[i]) = "fuzzy"
                  /\ RuleScore(bookmarks[i]) = 0

\* one search whose results come from all four rules (the exact name also
\* satisfies the substring test) and which excludes a bookmark
C18_Witness ==
    /\ BookmarksRanked
    /\ \A rule \in {"exact-name", "name-substring", "url-substring", "fuzzy"} :
          \E k \in 1..Len(ranked) :
              FirstRule(bookmarks[ranked[k].date_added]) = rule
    /\ Len(ranked) < TopBookmarks
    /\ Unranked # {}

---------------------------------------------------------------------------
(* Properties of the error titles.                                         *)

\* why the Bookmarks file cannot be used, as the first access that fails
\* finds it: "absent", "invalid_json", or "none"
BookmarksCause(env) ==
    IF ~env.installed THEN "none"
    ELSE IF env.validated # "valid" THEN env.validated
    ELSE IF env.read # "valid" THEN env.read
    ELSE "none"

\* C19: when the Bookmarks file cannot be used, the title of the placeholder
\* tells the cause: the title printed for an absent file is never the title
\* printed for a file that holds invalid JSON.
C19_CausesToldApart ==
    (tool = "chrome_bookmarks" /\ runs > 0
        /\ BookmarksCause(chrome_env) = "absent") =>
        \A env \in ChromeEnvs :
            BookmarksCause(env) = "invalid_json" =>
                items[1].title
                    # ErrorOutput(LoadRaises(env), CHROME_BOOKMARKS_DEBUG)[1].title

---------------------------------------------------------------------------
(* Properties of the hierarchy pass.                                       *)

\* the position of a returned path among the keys of the score dict: the
\* candidates in list order, then a zoxide result that is no candidate
KeyIndex(path) ==
    IF IsCandidate(path)
    THEN CHOOSE j \in 1..Len(paths) : paths[j] = path
    ELSE Len(paths) + 1

\* the path at position i of the ordering is visited before the one at
\* position j: higher score first, equal scores in key order
VisitedBefore(i, j) ==
    \/ ranked[i].score > ranked[j].score
    \/ /\ ranked[i].score = ranked[j].score
       /\ KeyIndex(ranked[i].path) < KeyIndex(ranked[j].path)

\* position j holds the path at position k or one it lies below, on a
\* segment boundary
AtOrAbove(j, k) ==
    \/ j = k
    \/ StartsWith(ranked[k].path, ranked[j].path \o <<"/">>)

\* the path that collects the one at position k: the first visited among the
\* path itself and those it lies below
LeaderOf(k) ==
    CHOOSE j \in 1..Len(ranked) :
        /\ AtOrAbove(j, k)
        /\ \A other \in 1..Len(ranked) :
              (AtOrAbove(other, k) /\ other # j) => VisitedBefore(j, other)

\* C20: the returned ordering is a sequence of contiguous blocks, one per
\* path L visited while not yet placed, in score-descending order of the
\* L's; a block holds L and exactly the not-yet-placed paths that start with
\* L + "/"; inside a block the paths ending in "/src" come first and, among
\* the paths ending in "/src" as among the others, scores do not increase.
C20_HierarchyBlocks ==
    PathsRanked =>
        \A i, k \in 1..Len(ranked) :
            i < k =>
                IF LeaderOf(i) = LeaderOf(k)
                THEN /\ \A j \in i..k : LeaderOf(j) = LeaderOf(i)
                     /\ EndsWith(ranked[k].path, SrcSuffix)
                            => EndsWith(ranked[i].path, SrcSuffix)
                     /\ (EndsWith(ranked[i].path, SrcSuffix)
                            <=> EndsWith(ranked[k].path, SrcSuffix))
                            => ranked[i].score >= ranked[k].score
                ELSE VisitedBefore(LeaderOf(i), LeaderOf(k))

\* a block of at least three paths whose "/src" member is first with the
\* lowest score of the block, and a path that extends another without the
\* "/" and stands in another block, a third block between them
C20_Witness ==
    /\ PathsRanked
    /\ \E i, j, k \in 1..Len(ranked) :
          /\ i < j /\ j < k
          /\ LeaderOf(i) = LeaderOf(k)
          /\ EndsWith(ranked[i].path, SrcSuffix)
          /\ ranked[i].score < ranked[k].score
          /\ ranked[k].score < ranked[j].score
    /\ \E i, j, k \in 1..Len(ranked) :
          /\ i < j /\ j < k
          /\ StartsWith(ranked[k].path, ranked[i].path)
          /\ LeaderOf(i) # LeaderOf(j)
          /\ LeaderOf(j) # LeaderOf(k)
          /\ LeaderOf(k) # LeaderOf(i)

====
